---- MODULE Spec2Model ----
(***************************************************************************)
(* Model of the artichoke-backend protected evaluation path (eval.rs),     *)
(* the interpreter-level parser context operations (parser.rs), the Time   *)
(* argument parser (extn/core/time/args.rs) and the conversion layer       *)
(* (convert.rs, extn/core/encoding/trampoline.rs).                         *)
(***************************************************************************)
EXTENDS Integers, Sequences, FiniteSets, TLC

VARIABLES
    mrb,          \* State.mrb, the engine pointer: "NULL" or "live"
    exc,          \* (*mrb).exc, the engine's pending-exception slot
    stack,        \* state.parser: the stack of Context frames (file names)
    ctxFilename,  \* the file name held by the parser's mrbc_context
    methods,      \* global methods / modules the evaluated programs defined
    required,     \* files that `require` has already loaded
    calls,        \* native call stack of the eval invocations in flight
    result,       \* what the latest host-level eval returned
    sawSyntaxError, \* history: a host-level eval returned Err(SyntaxError)
    trace,        \* history: the latest host-level push_context/pop_context calls
    peek,         \* outcome of the latest Parser::peek_context call
    tpc,          \* as_time_args: position in the function
    targs,        \* as_time_args: the argument slice
    ti,           \* as_time_args: loop index
    tfields,      \* as_time_args: the TimeArgs being filled
    tconv,        \* as_time_args: number of to_int conversions performed
    tseen,        \* as_time_args: indices of the arguments handed to to_int
    tres,         \* as_time_args: the returned Result
    tacc,         \* what the TimeArgs accessors returned for that Result
    cop,          \* conversion layer: the operation last performed
    cin,          \* conversion layer: its input
    cres,         \* conversion layer: its Result
    cheap,        \* number of objects allocated on the engine's heap
    calloc        \* number of objects the last operation allocated

vars == <<mrb, exc, stack, ctxFilename, methods, required, calls, result,
          sawSyntaxError, trace, peek, tpc, targs, ti, tfields, tconv, tseen,
          tres, tacc, cop, cin, cres, cheap, calloc>>

evalVars == <<mrb, exc, stack, ctxFilename, methods, required, calls, result,
              sawSyntaxError, trace, peek>>

timeVars == <<tpc, targs, ti, tfields, tconv, tseen, tres, tacc>>

convVars == <<cop, cin, cres, cheap, calloc>>

(***************************************************************************)
(* Bounds                                                                  *)
(***************************************************************************)
\* host-level pushes allowed on the context stack
MaxStack == 3
\* length of the window of remembered host-level context operations
MaxTrace == 4

(***************************************************************************)
(* Values, results                                                         *)
(***************************************************************************)
NULL == "NULL"

Fix(s) == [tt |-> "fixnum", v |-> s]

Str(s) == [tt |-> "string", v |-> s]

Nil == [tt |-> "nil", v |-> ""]

True == [tt |-> "true", v |-> ""]

False == [tt |-> "false", v |-> ""]

Sym(s) == [tt |-> "symbol", v |-> s]

\* mrb_undef_value(): MRB_TT_UNDEF, the engine-internal marker
Undef == [tt |-> "undef", v |-> ""]

ExcObj(name) == [tt |-> "exception", v |-> name]

NoResult == [kind |-> "none", name |-> "", value |-> Nil]

Ok(v) == [kind |-> "Ok", name |-> "", value |-> v]

Err(name) == [kind |-> "Err", name |-> name, value |-> Nil]

\* sentinel file name of the root context
TOP_FILENAME == "(eval)"

\* directory under which required sources live in the virtual file system
LoadPath(name) ==
    CASE name = "source" -> "/src/lib/source.rb"
      [] name = "fail" -> "/src/lib/fail.rb"
      [] name = "nested_eval" -> "/src/lib/nested_eval.rb"

(***************************************************************************)
(* Sources handed to eval                                                  *)
(***************************************************************************)
Op(o, a) == [op |-> o, arg |-> a]

Program(code) ==
    CASE code = "15" -> [ok |-> TRUE, body |-> <<Op("lit", Fix("15"))>>]
      [] code = "'a' * 10" -> [ok |-> TRUE, body |-> <<Op("lit", Str("aaaaaaaaaa"))>>]
      [] code = "__FILE__" -> [ok |-> TRUE, body |-> <<Op("file", Nil)>>]
      [] code = "'a" -> [ok |-> FALSE, body |-> <<>>]
      [] code = "raise 'boom'" -> [ok |-> TRUE, body |-> <<Op("raise", ExcObj("RuntimeError"))>>]
      [] code = "<undef>" -> [ok |-> TRUE, body |-> <<Op("lit", Undef)>>]
      [] code = "require 'source'; file" ->
            [ok |-> TRUE, body |-> <<Op("require", Str("source")), Op("call_file", Nil)>>]
      [] code = "require 'source'; __FILE__" ->
            [ok |-> TRUE, body |-> <<Op("require", Str("source")), Op("file", Nil)>>]
      [] code = "require 'fail'" ->
            [ok |-> TRUE, body |-> <<Op("require", Str("fail"))>>]
      [] code = "require 'nested_eval'; NestedEval.file" ->
            [ok |-> TRUE, body |-> <<Op("require", Str("nested_eval")), Op("nested_eval", Nil)>>]
      [] code = "def file; __FILE__; end" -> [ok |-> TRUE, body |-> <<Op("def_file", Nil)>>]
      [] code = "def bad; 'as'.scan(; end" -> [ok |-> FALSE, body |-> <<>>]

\* sources the host hands to eval
HostCodes ==
    {"15", "'a' * 10", "__FILE__", "'a", "raise 'boom'", "<undef>",
     "require 'source'; file", "require 'source'; __FILE__", "require 'fail'",
     "require 'nested_eval'; NestedEval.file"}

\* the virtual file system: Ruby sources and Rust-backed files
RubySource(name) ==
    CASE name = "source" -> "def file; __FILE__; end"
      [] name = "fail" -> "def bad; 'as'.scan(; end"
      [] OTHER -> ""

RustBacked(name) == name = "nested_eval"

\* names the host gives to the frames it pushes
ContextNames == {"source.rb", "main.rb"}

Last(s) == s[Len(s)]

Front(s) == SubSeq(s, 1, Len(s) - 1)

(***************************************************************************)
(* Parser context stack                                                    *)
(***************************************************************************)
\* state::parser::State::push_context: set the mrbc_context file name, push
StatePushContext(st, context) ==
    [stack |-> Append(st.stack, context), filename |-> context]

\* state::parser::State::pop_context: pop, restore the file name of the new top
StatePopContext(st) ==
    IF st.stack = <<>>
    THEN [stack |-> <<>>, filename |-> TOP_FILENAME, ret |-> "None"]
    ELSE [stack |-> Front(st.stack),
          filename |-> IF Len(st.stack) = 1 THEN TOP_FILENAME ELSE st.stack[Len(st.stack) - 1],
          ret |-> Last(st.stack)]

\* state::parser::State::peek_context
StatePeekContext(st) == IF st.stack = <<>> THEN "None" ELSE Last(st.stack)

push_context_no_engine_check(m, st, context) ==
    IF m = NULL THEN StatePushContext(st, context) ELSE st

\* Parser::push_context for Artichoke
push_context(m, st, context) ==
    IF m # NULL THEN StatePushContext(st, context) ELSE st

pop_context_no_engine_check(m, st) ==
    IF m = NULL THEN StatePopContext(st)
    ELSE [stack |-> st.stack, filename |-> st.filename, ret |-> "None"]

\* Parser::pop_context for Artichoke
pop_context(m, st) ==
    IF m # NULL THEN StatePopContext(st)
    ELSE [stack |-> st.stack, filename |-> st.filename, ret |-> "None"]

ParserState == [stack |-> stack, filename |-> ctxFilename]

(***************************************************************************)
(* Engine primitives used by eval                                          *)
(***************************************************************************)
\* sys::mrb_sys_obj_ptr: the object a value points to (an exception object
\* is identified by its class name)
mrb_sys_obj_ptr(value) == value.v

\* Value::is_unreachable: the runtime type tag is Ruby::Unreachable
is_unreachable(value) == value.tt = "undef"

\* file name the engine's parser binds __FILE__ to for a load with context ctx
LoadFilename(ctx) == IF ctx = NULL THEN "(null)" ELSE ctxFilename

\* ExceptionHandler::last_error: take the pending exception out of the slot
\* (the slot is cleared first) and convert it; the conversion is fallible
last_error(slot) ==
    IF slot = NULL
    THEN {[slot |-> NULL, kind |-> "None", name |-> ""]}
    ELSE {[slot |-> NULL, kind |-> "Some", name |-> slot],
          [slot |-> NULL, kind |-> "Fail", name |-> "LastErrorFailure"]}

\* a read of the slot that leaves the pending exception in place
peek_error(slot) ==
    IF slot = NULL
    THEN {[slot |-> NULL, kind |-> "None", name |-> ""]}
    ELSE {[slot |-> slot, kind |-> "Some", name |-> slot],
          [slot |-> slot, kind |-> "Fail", name |-> "LastErrorFailure"]}

(***************************************************************************)
(* eval.rs                                                                 *)
(***************************************************************************)
Protect_new_null_ctx(code) == [ctx |-> NULL, code |-> code]

\* Protect::new: the envelope holds the parser's mrbc_context and the code
Protect_new(code) == [ctx |-> "parser.context", code |-> code]

InstallExc_never(state, value, slot) == slot

\* eval: `if state != 0 { (*mrb).exc = mrb_sys_obj_ptr(value) }`
InstallExc(state, value, slot) ==
    IF state # 0 THEN mrb_sys_obj_ptr(value) ELSE slot

Classify_no_check(value) == Ok(value)

\* eval: the else branch, the result value is classified
Classify(value) ==
    IF is_unreachable(value) THEN Err("Fatal") ELSE Ok(value)

EvalOutcome_classify_first(le, value) ==
    IF is_unreachable(value) THEN Err("Fatal")
    ELSE IF le.kind = "Fail" THEN Err(le.name)
    ELSE IF le.kind = "Some" THEN Err(le.name)
    ELSE Ok(value)

\* eval: `if let Some(exc) = self.last_error()? { Err(exc) } else { ... }`
EvalOutcome(le, value) ==
    IF le.kind = "Fail" THEN Err(le.name)
    ELSE IF le.kind = "Some" THEN Err(le.name)
    ELSE Classify(value)

\* one invocation of eval; box is the heap envelope of its Protect ("none",
\* "allocated" or "freed"), frees the number of times it was freed, refs
\* and refmuts the Ref and RefMut guards of the state cell it holds alive
NewFrame(code, via, entry) ==
    [code |-> code, via |-> via, pc |-> "begin", ip |-> 0, ctx |-> NULL,
     file |-> "", value |-> Nil, state |-> 0, entryStack |-> entry,
     slotSeen |-> NULL, ret |-> NoResult, box |-> "none", frees |-> 0,
     refs |-> 0, refmuts |-> 0]

\* RefCell::borrow succeeds: no RefMut of the state cell is alive
CanBorrow(cs) == \A k \in 1..Len(cs) : cs[k].refmuts = 0

\* RefCell::borrow_mut succeeds: no guard of the state cell is alive
CanBorrowMut(cs) == \A k \in 1..Len(cs) : cs[k].refs = 0 /\ cs[k].refmuts = 0

\* `self.0.borrow()`: a Ref is alive
TakeRef(f) == [f EXCEPT !.refs = @ + 1]

DropRef_at_end_of_eval(f) == f

\* eval: the Ref of `self.0.borrow().mrb` is a temporary, dropped at the
\* end of the `let`
DropRef(f) == [f EXCEPT !.refs = @ - 1]

\* `interp.0.borrow_mut()`: a RefMut is alive
TakeRefMut(f) == [f EXCEPT !.refmuts = @ + 1]

\* Protect::new: the RefMut is a temporary, dropped when new returns
DropRefMut(f) == [f EXCEPT !.refmuts = @ - 1]

\* `Box::into_raw(Box::new(protect))`
Box_into_raw(f) == [f EXCEPT !.box = "allocated"]

Protect_run_leaves_box(f) == f

\* Protect::run: Box::from_raw, ctx and code copied out, `drop(protect)`
Protect_run(f) == [f EXCEPT !.box = "freed", !.frees = @ + 1]

\* a failed borrow of the state cell panics
BorrowPanic(f) == [f EXCEPT !.pc = "panicked"]

Top == calls[Len(calls)]

SetTop(f) == [calls EXCEPT ![Len(calls)] = f]

Body(f) == Program(f.code).body

AtOp(o) ==
    /\ calls # <<>>
    /\ Top.pc = "run"
    /\ Top.ip <= Len(Body(Top))
    /\ Body(Top)[Top.ip].op = o

Arg == Body(Top)[Top.ip].arg

\* the engine goes on to the next expression with value v
Advance(f, v) == [f EXCEPT !.value = v, !.ip = f.ip + 1, !.pc = "run"]

\* the engine raises: either the jump reaches mrb_protect (state set, the
\* exception object returned, slot cleared) or the VM catches it and leaves
\* it in the slot
Raised(f, name, jumped) ==
    [f EXCEPT !.pc = "protected",
              !.state = IF jumped THEN 1 ELSE 0,
              !.value = IF jumped THEN ExcObj(name) ELSE Nil]

RaisedSlot(name, jumped, slot) == IF jumped THEN NULL ELSE name

\* the host holds no eval Result yet, or has moved on to its next call
NoHostResult ==
    [code |-> "", kind |-> "none", name |-> "", value |-> Nil, file |-> "",
     entryStack |-> <<>>]

Idle == calls = <<>> /\ peek # "panicked"

\* the host calls interp.eval(code)
HostEval(code) ==
    /\ Idle
    /\ calls' = <<NewFrame(code, "host", stack)>>
    /\ trace' = <<>>
    /\ result' = NoHostResult
    /\ UNCHANGED <<mrb, exc, stack, ctxFilename, methods, required,
                   sawSyntaxError, peek>>
    /\ UNCHANGED <<timeVars, convVars>>

\* eval: read the engine pointer, build the envelope
EvalBegin ==
    /\ calls # <<>>
    /\ Top.pc = "begin"
    /\ mrb # NULL
    /\ LET read == TakeRef(Top)
           kept == DropRef(read)
           made == TakeRefMut(kept)
           done == DropRefMut(made)
       IN IF CanBorrow(calls) /\ CanBorrowMut(SetTop(kept))
          THEN calls' = SetTop(Box_into_raw([done EXCEPT
                                   !.pc = "protect",
                                   !.ctx = Protect_new(Top.code).ctx]))
          ELSE calls' = SetTop(BorrowPanic(Top))
    /\ UNCHANGED <<mrb, exc, stack, ctxFilename, methods, required, result,
                   sawSyntaxError, trace, peek>>
    /\ UNCHANGED <<timeVars, convVars>>

\* eval: mrb_protect enters Protect::run, which hands the code and the
\* context to mrb_load_nstring_cxt; the engine parses the whole source
EvalProtect ==
    /\ calls # <<>>
    /\ Top.pc = "protect"
    /\ IF Program(Top.code).ok
       THEN /\ calls' = SetTop([Protect_run(Top) EXCEPT !.pc = "run", !.ip = 1,
                                           !.file = LoadFilename(Top.ctx)])
            /\ exc' = exc
       ELSE /\ calls' = SetTop([Protect_run(Top) EXCEPT !.pc = "protected",
                                           !.state = 0, !.value = Undef,
                                           !.file = LoadFilename(Top.ctx)])
            /\ exc' = "SyntaxError"
    /\ UNCHANGED <<mrb, stack, ctxFilename, methods, required, result,
                   sawSyntaxError, trace, peek>>
    /\ UNCHANGED <<timeVars, convVars>>

EngineLit ==
    /\ AtOp("lit")
    /\ calls' = SetTop(Advance(Top, Arg))
    /\ UNCHANGED <<mrb, exc, stack, ctxFilename, methods, required, result,
                   sawSyntaxError, trace, peek>>
    /\ UNCHANGED <<timeVars, convVars>>

EngineFile ==
    /\ AtOp("file")
    /\ calls' = SetTop(Advance(Top, Str(Top.file)))
    /\ UNCHANGED <<mrb, exc, stack, ctxFilename, methods, required, result,
                   sawSyntaxError, trace, peek>>
    /\ UNCHANGED <<timeVars, convVars>>

EngineDefFile ==
    /\ AtOp("def_file")
    /\ methods' = [methods EXCEPT !.file = Top.file]
    /\ calls' = SetTop(Advance(Top, Sym("file")))
    /\ UNCHANGED <<mrb, exc, stack, ctxFilename, required, result,
                   sawSyntaxError, trace, peek>>
    /\ UNCHANGED <<timeVars, convVars>>

EngineCallFile ==
    /\ AtOp("call_file")
    /\ methods.file # ""
    /\ calls' = SetTop(Advance(Top, Str(methods.file)))
    /\ UNCHANGED <<mrb, exc, stack, ctxFilename, methods, required, result,
                   sawSyntaxError, trace, peek>>
    /\ UNCHANGED <<timeVars, convVars>>

EngineRaise ==
    /\ AtOp("raise")
    /\ \E jumped \in BOOLEAN :
         /\ calls' = SetTop(Raised(Top, Arg.v, jumped))
         /\ exc' = RaisedSlot(Arg.v, jumped, exc)
    /\ UNCHANGED <<mrb, stack, ctxFilename, methods, required, result,
                   sawSyntaxError, trace, peek>>
    /\ UNCHANGED <<timeVars, convVars>>

\* require of a file that was loaded before: nothing is evaluated
EngineRequireLoaded ==
    /\ AtOp("require")
    /\ Arg.v \in required
    /\ calls' = SetTop(Advance(Top, False))
    /\ UNCHANGED <<mrb, exc, stack, ctxFilename, methods, required, result,
                   sawSyntaxError, trace, peek>>
    /\ UNCHANGED <<timeVars, convVars>>

\* require of a Rust-backed file: push the file's frame, run its require
\* hook (NestedEval defines its module), pop the frame
EngineRequireRust ==
    /\ AtOp("require")
    /\ Arg.v \notin required
    /\ RustBacked(Arg.v)
    /\ IF CanBorrowMut(calls)
       THEN LET st1 == push_context(mrb, ParserState, LoadPath(Arg.v))
                st2 == pop_context(mrb, st1)
            IN /\ stack' = st2.stack
               /\ ctxFilename' = st2.filename
               /\ methods' = [methods EXCEPT !.NestedEval = TRUE]
               /\ required' = required \cup {Arg.v}
               /\ calls' = SetTop(Advance(Top, True))
       ELSE /\ calls' = SetTop(BorrowPanic(Top))
            /\ UNCHANGED <<stack, ctxFilename, methods, required>>
    /\ UNCHANGED <<mrb, exc, result, sawSyntaxError, trace, peek>>
    /\ UNCHANGED <<timeVars, convVars>>

\* require of a Ruby source: push the file's frame and eval its contents
EngineRequireRuby ==
    /\ AtOp("require")
    /\ Arg.v \notin required
    /\ ~RustBacked(Arg.v)
    /\ IF CanBorrowMut(calls)
       THEN LET st1 == push_context(mrb, ParserState, LoadPath(Arg.v))
            IN /\ stack' = st1.stack
               /\ ctxFilename' = st1.filename
               /\ calls' = Append(SetTop([Top EXCEPT !.pc = "in_require"]),
                                  NewFrame(RubySource(Arg.v), "require", st1.stack))
       ELSE /\ calls' = SetTop(BorrowPanic(Top))
            /\ UNCHANGED <<stack, ctxFilename>>
    /\ UNCHANGED <<mrb, exc, methods, required, result, sawSyntaxError, trace, peek>>
    /\ UNCHANGED <<timeVars, convVars>>

\* the nested eval of a required source returned: pop the file's frame, then
\* either mark the file loaded or raise the error into the requiring program
RequireResume ==
    /\ Len(calls) >= 2
    /\ Top.pc = "returned"
    /\ Top.via = "require"
    /\ CanBorrowMut(calls)
    /\ LET caller == calls[Len(calls) - 1]
           name == Program(caller.code).body[caller.ip].arg.v
           st == pop_context(mrb, ParserState)
       IN /\ stack' = st.stack
          /\ ctxFilename' = st.filename
          /\ IF Top.ret.kind = "Ok"
             THEN /\ required' = required \cup {name}
                  /\ calls' = [Front(calls) EXCEPT ![Len(calls) - 1] = Advance(caller, True)]
                  /\ exc' = exc
             ELSE /\ required' = required
                  /\ \E jumped \in BOOLEAN :
                       /\ calls' = [Front(calls) EXCEPT ![Len(calls) - 1] =
                                        Raised(caller, Top.ret.name, jumped)]
                       /\ exc' = RaisedSlot(Top.ret.name, jumped, exc)
    /\ UNCHANGED <<mrb, methods, result, sawSyntaxError, trace, peek>>
    /\ UNCHANGED <<timeVars, convVars>>

\* NestedEval.file: native code that calls interp.eval(b"__FILE__")
EngineNestedEval ==
    /\ AtOp("nested_eval")
    /\ methods.NestedEval
    /\ calls' = Append(SetTop([Top EXCEPT !.pc = "in_native"]),
                       NewFrame("__FILE__", "native", stack))
    /\ UNCHANGED <<mrb, exc, stack, ctxFilename, methods, required, result,
                   sawSyntaxError, trace, peek>>
    /\ UNCHANGED <<timeVars, convVars>>

\* nested_eval: `if let Ok(value) = interp.eval(..) { value } else { nil }`
NestedResume ==
    /\ Len(calls) >= 2
    /\ Top.pc = "returned"
    /\ Top.via = "native"
    /\ LET caller == calls[Len(calls) - 1]
           v == IF Top.ret.kind = "Ok" THEN Top.ret.value ELSE Nil
       IN calls' = [Front(calls) EXCEPT ![Len(calls) - 1] = Advance(caller, v)]
    /\ UNCHANGED <<mrb, exc, stack, ctxFilename, methods, required, result,
                   sawSyntaxError, trace, peek>>
    /\ UNCHANGED <<timeVars, convVars>>

\* the program ran to its end: mrb_load_nstring_cxt returns the last value
EngineFinish ==
    /\ calls # <<>>
    /\ Top.pc = "run"
    /\ Top.ip > Len(Body(Top))
    /\ calls' = SetTop([Top EXCEPT !.pc = "protected", !.state = 0])
    /\ UNCHANGED <<mrb, exc, stack, ctxFilename, methods, required, result,
                   sawSyntaxError, trace, peek>>
    /\ UNCHANGED <<timeVars, convVars>>

\* eval: mrb_protect returned; install the exception it reported
EvalInstallExc ==
    /\ calls # <<>>
    /\ Top.pc = "protected"
    /\ exc' = InstallExc(Top.state, Top.value, exc)
    /\ calls' = SetTop([Top EXCEPT !.pc = "inspect", !.slotSeen = exc'])
    /\ UNCHANGED <<mrb, stack, ctxFilename, methods, required, result,
                   sawSyntaxError, trace, peek>>
    /\ UNCHANGED <<timeVars, convVars>>

EvalInspect_peek_only ==
    /\ calls # <<>>
    /\ Top.pc = "inspect"
    /\ \E le \in peek_error(exc) :
         /\ exc' = le.slot
         /\ calls' = SetTop([Top EXCEPT !.pc = "returned",
                                        !.ret = EvalOutcome(le, Top.value)])
    /\ UNCHANGED <<mrb, stack, ctxFilename, methods, required, result,
                   sawSyntaxError, trace, peek>>
    /\ UNCHANGED <<timeVars, convVars>>

\* eval: read the last error, then classify the value; eval returns
EvalInspect ==
    /\ calls # <<>>
    /\ Top.pc = "inspect"
    /\ \E le \in last_error(exc) :
         /\ exc' = le.slot
         /\ calls' = SetTop([Top EXCEPT !.pc = "returned",
                                        !.ret = EvalOutcome(le, Top.value)])
    /\ UNCHANGED <<mrb, stack, ctxFilename, methods, required, result,
                   sawSyntaxError, trace, peek>>
    /\ UNCHANGED <<timeVars, convVars>>

\* the host receives the Result of its eval call
HostReturn ==
    /\ Len(calls) = 1
    /\ Top.pc = "returned"
    /\ Top.via = "host"
    /\ result' = [code |-> Top.code, kind |-> Top.ret.kind, name |-> Top.ret.name,
                  value |-> Top.ret.value, file |-> Top.file,
                  entryStack |-> Top.entryStack]
    /\ sawSyntaxError' = (sawSyntaxError \/
                          (Top.ret.kind = "Err" /\ Top.ret.name = "SyntaxError"))
    /\ calls' = <<>>
    /\ UNCHANGED <<mrb, exc, stack, ctxFilename, methods, required, trace, peek>>
    /\ UNCHANGED <<timeVars, convVars>>

(***************************************************************************)
(* parser.rs: host-level context operations                                *)
(***************************************************************************)
Remember(e) ==
    IF Len(trace) < MaxTrace THEN Append(trace, e)
    ELSE Append(SubSeq(trace, 2, Len(trace)), e)

HostPushContext(context) ==
    /\ Idle
    /\ Len(stack) < MaxStack
    /\ LET st == push_context(mrb, ParserState, context)
       IN /\ stack' = st.stack
          /\ ctxFilename' = st.filename
    /\ trace' = Remember([op |-> "push", arg |-> context, pre |-> stack,
                          preFile |-> ctxFilename])
    /\ result' = NoHostResult
    /\ UNCHANGED <<mrb, exc, methods, required, calls, sawSyntaxError, peek>>
    /\ UNCHANGED <<timeVars, convVars>>

HostPopContext ==
    /\ Idle
    /\ LET st == pop_context(mrb, ParserState)
       IN /\ stack' = st.stack
          /\ ctxFilename' = st.filename
          /\ trace' = Remember([op |-> "pop", arg |-> st.ret, pre |-> stack,
                                preFile |-> ctxFilename])
    /\ result' = NoHostResult
    /\ UNCHANGED <<mrb, exc, methods, required, calls, sawSyntaxError, peek>>
    /\ UNCHANGED <<timeVars, convVars>>

\* Parser::peek_context for Artichoke: unimplemented!()
HostPeekContext ==
    /\ Idle
    /\ peek' = "panicked"
    /\ UNCHANGED <<mrb, exc, stack, ctxFilename, methods, required, calls, result,
                   sawSyntaxError, trace>>
    /\ UNCHANGED <<timeVars, convVars>>

InitEval ==
    /\ mrb = "live"
    /\ exc = NULL
    /\ stack = <<>>
    /\ ctxFilename = TOP_FILENAME
    /\ methods = [file |-> "", NestedEval |-> FALSE]
    /\ required = {}
    /\ calls = <<>>
    /\ result = NoHostResult
    /\ sawSyntaxError = FALSE
    /\ trace = <<>>
    /\ peek = "not called"

\* i32::MAX
I32_MAX == 2147483647

\* an i64 held as hi * 2^31 + lo with 0 <= lo <= i32::MAX, so that values
\* outside the i32 range keep their place
I64(hi, lo) == [hi |-> hi, lo |-> lo]

\* the i64 of an integer literal within the i32 range
W(n) == IF n >= 0 THEN I64(0, n) ELSE I64(-1, (n + I32_MAX) + 1)

\* TimeArgs::default()
DefaultTimeArgs ==
    [year |-> W(0), month |-> W(1), day |-> W(1), hour |-> W(0), minute |-> W(0),
     second |-> W(0), micros |-> W(0)]

NoTimeResult == [kind |-> "none", name |-> "", message |-> "", fields |-> DefaultTimeArgs]

NoAccessorResult == [kind |-> "none", v |-> W(0), message |-> ""]

\* no accessor has been called on the current Result
NoAccess ==
    [year |-> NoAccessorResult, month |-> NoAccessorResult, day |-> NoAccessorResult,
     hour |-> NoAccessorResult, minute |-> NoAccessorResult,
     second |-> NoAccessorResult, nanoseconds |-> NoAccessorResult]

InitTime ==
    /\ tpc = "idle"
    /\ targs = <<>>
    /\ ti = 0
    /\ tfields = DefaultTimeArgs
    /\ tconv = 0
    /\ tseen = {}
    /\ tres = NoTimeResult
    /\ tacc = NoAccess

\* no error
NoConvError == [error |-> "none", from |-> "", into |-> ""]

\* no value
NoValue == [tt |-> "none", v |-> ""]

NoConvResult == [kind |-> "none", value |-> NoValue, err |-> NoConvError]

\* no conversion has been performed
InitConv ==
    /\ cop = "none"
    /\ cin = NoValue
    /\ cres = NoConvResult
    /\ cheap = 0
    /\ calloc = 0

Init == InitEval /\ InitTime /\ InitConv

Next ==
    \/ \E code \in HostCodes : HostEval(code)
    \/ EvalBegin
    \/ EvalProtect
    \/ EngineLit
    \/ EngineFile
    \/ EngineDefFile
    \/ EngineCallFile
    \/ EngineRaise
    \/ EngineRequireLoaded
    \/ EngineRequireRust
    \/ EngineRequireRuby
    \/ RequireResume
    \/ EngineNestedEval
    \/ NestedResume
    \/ EngineFinish
    \/ EvalInstallExc
    \/ EvalInspect
    \/ HostReturn
    \/ \E context \in ContextNames : HostPushContext(context)
    \/ HostPopContext
    \/ HostPeekContext

Spec == Init /\ [][Next]_vars

(***************************************************************************)
(* Properties of eval and of the context stack                             *)
(***************************************************************************)
Returned(f) == f.pc = "returned"

Frames == {calls[i] : i \in 1..Len(calls)}

\* the name the top of a context stack gives to __FILE__
CurrentName(s) == IF s = <<>> THEN "(eval)" ELSE s[Len(s)]

\* sources that evaluate without raising on a fresh interpreter
SucceedingCodes ==
    {"15", "'a' * 10", "__FILE__", "require 'source'; file",
     "require 'source'; __FILE__", "require 'nested_eval'; NestedEval.file"}

\* C1: once an eval on this interpreter has returned Err(SyntaxError), every
\* later eval of valid source returns Ok, and for the literal sources Ok
\* with the source's value: the failed eval left nothing behind.
C1_UsableAfterSyntaxError ==
    (sawSyntaxError /\ result.kind # "none" /\ result.code \in SucceedingCodes) =>
        /\ result.kind = "Ok"
        /\ (result.code = "15" => result.value = [tt |-> "fixnum", v |-> "15"])
        /\ (result.code = "'a' * 10" =>
                result.value = [tt |-> "string", v |-> "aaaaaaaaaa"])

C1_Witness ==
    /\ sawSyntaxError
    /\ result.code = "'a' * 10"
    /\ result.kind = "Ok"
    /\ result.value.v = "aaaaaaaaaa"

\* C2: eval never returns Ok of an unreachable-tagged value; when the engine
\* call ended with no pending exception and an unreachable-tagged value, eval
\* returns the Fatal error, which no raised exception is mistaken for.
C2_UnreachableIsFatal ==
    /\ \A f \in Frames : Returned(f) =>
          /\ ~(f.ret.kind = "Ok" /\ f.ret.value.tt = "undef")
          /\ (f.slotSeen = "NULL" /\ f.state = 0 /\ f.value.tt = "undef") =>
                (f.ret.kind = "Err" /\ f.ret.name = "Fatal")
    /\ ~(result.kind = "Ok" /\ result.value.tt = "undef")
    /\ (result.code = "<undef>" => (result.kind = "Err" /\ result.name = "Fatal"))
    /\ (result.code = "raise 'boom'" => result.name # "Fatal")

C2_Witness ==
    \E f \in Frames :
        /\ Returned(f)
        /\ f.value.tt = "undef"
        /\ f.slotSeen = "NULL"
        /\ f.ret.kind = "Err"
        /\ f.ret.name = "Fatal"

\* C3: whenever eval has returned (Ok, Err, or the early return taken when
\* reading the last error failed), the pending-exception slot is not set.
C3_SlotClearOnReturn ==
    /\ \A f \in Frames : Returned(f) => exc = "NULL"
    /\ (calls = <<>> /\ result.kind # "none") => exc = "NULL"

C3_Witness ==
    \E f \in Frames :
        /\ Returned(f)
        /\ f.slotSeen # "NULL"
        /\ f.ret.name = "LastErrorFailure"
        /\ exc = "NULL"

\* the exception the protected call left pending for frame f
PendingOf(f) == IF f.state # 0 THEN f.value.v ELSE f.slotSeen

HadPending(f) == f.state # 0 \/ f.slotSeen # "NULL"

\* C4 as stated: a pending exception after the protected call makes eval
\* return Err carrying that very exception.
C4_Original ==
    \A f \in Frames : (Returned(f) /\ HadPending(f)) =>
        (f.ret.kind = "Err" /\ f.ret.name = PendingOf(f))

\* C4 as amended: a pending exception after the protected call (set by the
\* engine, or installed by eval for a non-zero state) makes eval return Err,
\* never Ok and never the Fatal unreachable error, whatever the value's tag;
\* the Err carries that exception, or the error that reading it produced.
C4_PendingExceptionWins ==
    \A f \in Frames : (Returned(f) /\ HadPending(f)) =>
        /\ f.ret.kind = "Err"
        /\ f.ret.name # "Fatal"
        /\ f.ret.name \in {PendingOf(f), "LastErrorFailure"}

C4_Witness ==
    \E f \in Frames :
        /\ Returned(f)
        /\ f.value.tt = "undef"
        /\ f.slotSeen = "SyntaxError"
        /\ f.via = "require"
        /\ f.ret.kind = "Err"
        /\ f.ret.name = "SyntaxError"

\* C5: when eval returns, on success and on failure, the context stack is
\* the stack eval found: no frame added, none removed.
C5_StackRestored ==
    /\ \A f \in Frames : Returned(f) => stack = f.entryStack
    /\ (calls = <<>> /\ result.kind # "none") => stack = result.entryStack

C5_Witness ==
    \E f \in Frames :
        /\ Returned(f)
        /\ f.code = "require 'fail'"
        /\ f.ret.kind = "Err"
        /\ f.entryStack # <<>>
        /\ stack = f.entryStack

\* the four latest host-level context operations, oldest first
LastFour == SubSeq(trace, Len(trace) - 3, Len(trace))

IsPushPushPopPop ==
    /\ Len(trace) >= 4
    /\ LastFour[1].op = "push"
    /\ LastFour[2].op = "push"
    /\ LastFour[3].op = "pop"
    /\ LastFour[4].op = "pop"

\* C6: push A, push B, pop, pop returns Some(B) then Some(A) and leaves the
\* stack (and the current file name) as before the pushes; from the empty
\* stack no frame is current afterwards; pop on the empty stack returns None
\* and leaves it empty.
C6_Lifo ==
    /\ IsPushPushPopPop =>
          /\ LastFour[3].arg = LastFour[2].arg
          /\ LastFour[4].arg = LastFour[1].arg
          /\ stack = LastFour[1].pre
          /\ ctxFilename = LastFour[1].preFile
          /\ (LastFour[1].pre = <<>> => CurrentName(stack) = "(eval)" /\ stack = <<>>)
    /\ \A i \in 1..Len(trace) :
          (trace[i].op = "pop" /\ trace[i].pre = <<>>) =>
              /\ trace[i].arg = "None"
              /\ (i = Len(trace) => stack = <<>>)

C6_Witness ==
    /\ IsPushPushPopPop
    /\ LastFour[1].pre # <<>>
    /\ LastFour[1].arg # LastFour[2].arg
    /\ LastFour[3].arg = LastFour[2].arg
    /\ stack = LastFour[1].pre

\* C7: the source name an eval sees as __FILE__ is the name of the frame on
\* top of the context stack when the eval runs, "(eval)" when the stack is
\* empty; a frame that was popped, or a required file that finished loading,
\* no longer names a later __FILE__.
C7_FileIsTopOfStack ==
    /\ \A f \in Frames : f.pc \notin {"begin", "protect"} =>
          f.file = CurrentName(f.entryStack)
    /\ (result.kind = "Ok" /\ result.code \in {"__FILE__", "require 'source'; __FILE__"}) =>
          result.value = [tt |-> "string", v |-> CurrentName(result.entryStack)]

C7_Witness ==
    /\ result.kind = "Ok"
    /\ result.code = "require 'source'; __FILE__"
    /\ result.value.v = "main.rb"
    /\ stack = <<"source.rb", "main.rb">>

\* C8: an eval of __FILE__ made by native code of the required file
\* nested_eval.rb, inside an outer eval, sees "/src/lib/nested_eval.rb".
C8_NestedEvalSeesDefiningFile ==
    (result.code = "require 'nested_eval'; NestedEval.file" /\ result.kind = "Ok") =>
        result.value = [tt |-> "string", v |-> "/src/lib/nested_eval.rb"]

\* C9: peek_context returns the top frame and completes normally in every
\* reachable state.
C9_PeekContextReturns == peek # "panicked"

(***************************************************************************)
(* extn/core/time/args.rs: as_time_args                                    *)
(***************************************************************************)
\* largest argument count the host tries
MaxArgs == 12

IntArg(n) == [tt |-> "fixnum", n |-> W(n)]

\* an Integer outside the i32 range
WideArg(hi, lo) == [tt |-> "fixnum", n |-> I64(hi, lo)]

\* an object that is no Integer and answers to_int with n
WithToInt(n) == [tt |-> "object", n |-> W(n)]

NilArg == [tt |-> "nil", n |-> W(0)]

StringArg == [tt |-> "string", n |-> W(0)]

\* the StandardError class object
ErrorClassArg == [tt |-> "class", n |-> W(0)]

SpecialArgs == {NilArg, StringArg, ErrorClassArg, WithToInt(5)}

\* Integers at and around the edges of the fields' ranges: i32::MAX + 1,
\* i32::MIN - 1 and i32::MIN among them
BoundaryArgs ==
    {IntArg(x) : x \in {-1, 0, 1, 12, 13, 23, 24, 31, 32, 59, 60, 61, 999999,
                        1000000, I32_MAX}}
    \cup {WideArg(1, 0), WideArg(-2, I32_MAX), WideArg(-1, 0)}

\* integer components the callers pass, by position (from the eighth
\* position on the tests pass nil and zeros)
Components ==
    {<<2022, 2, 3, 4, 5, 6, 7, 8, 0, 0, 0, 0, 0>>,
     <<2147483647, 13, 0, 24, 60, 61, 1000000, 1, 1, 1, 1, 1, 1>>,
     <<-2147483647, 12, 31, 23, 59, 60, 999999, -1, 2, 2, 2, 2, 2>>}

\* the argument slices handed to as_time_args: n integers, at most one of
\* them replaced by a value that is no Integer or by an edge of a range
ArgSlices ==
    UNION {
        {[i \in 1..n |-> IntArg(c[i])] : c \in Components}
        \cup {[i \in 1..n |-> IF i = p THEN w ELSE IntArg(c[i])] :
                 c \in {<<2022, 2, 3, 4, 5, 6, 7, 8, 0, 0, 0, 0, 0>>},
                 p \in 1..n, w \in SpecialArgs \cup BoundaryArgs}
        : n \in 0..MaxArgs}

Digit(d) ==
    CASE d = 0 -> "0" [] d = 1 -> "1" [] d = 2 -> "2" [] d = 3 -> "3" [] d = 4 -> "4"
      [] d = 5 -> "5" [] d = 6 -> "6" [] d = 7 -> "7" [] d = 8 -> "8" [] d = 9 -> "9"

RECURSIVE to_string(_)
\* usize::to_string: the decimal digits, most significant first
to_string(n) ==
    IF n < 10 THEN Digit(n) ELSE to_string(n \div 10) \o Digit(n % 10)

CountMessage_last_digit(n) ==
    "wrong number of arguments (given " \o Digit(n % 10) \o ", expected 1..8)"

\* as_time_args: the message of the argument-count error
CountMessage(n) ==
    "wrong number of arguments (given " \o to_string(n) \o ", expected 1..8)"

\* as_time_args: the match arm `0 | 9 | 11..`
IsCountError(n) == n = 0 \/ n = 9 \/ n >= 11

\* convert::to_int: an Integer converts to itself, an object answering
\* to_int to the answer, anything else fails with a TypeError
to_int(arg) ==
    CASE arg.tt = "fixnum" -> [kind |-> "Ok", n |-> arg.n]
      [] arg.tt = "object" -> [kind |-> "Ok", n |-> arg.n]
      [] OTHER -> [kind |-> "Err", n |-> W(0)]

Assign_day_before_month(fields, i, arg) ==
    CASE i = 0 -> [fields EXCEPT !.year = arg]
      [] i = 1 -> [fields EXCEPT !.day = arg]
      [] i = 2 -> [fields EXCEPT !.month = arg]
      [] i = 3 -> [fields EXCEPT !.hour = arg]
      [] i = 4 -> [fields EXCEPT !.minute = arg]
      [] i = 5 -> [fields EXCEPT !.second = arg]
      [] i = 6 -> [fields EXCEPT !.micros = arg]
      [] OTHER -> fields

\* as_time_args: `match i { 0 => result.year = arg, ... }`, i counted from 0
Assign(fields, i, arg) ==
    CASE i = 0 -> [fields EXCEPT !.year = arg]
      [] i = 1 -> [fields EXCEPT !.month = arg]
      [] i = 2 -> [fields EXCEPT !.day = arg]
      [] i = 3 -> [fields EXCEPT !.hour = arg]
      [] i = 4 -> [fields EXCEPT !.minute = arg]
      [] i = 5 -> [fields EXCEPT !.second = arg]
      [] i = 6 -> [fields EXCEPT !.micros = arg]
      [] OTHER -> fields

(***************************************************************************)
(* extn/core/time/args.rs: the TimeArgs accessors                          *)
(***************************************************************************)
\* the match pattern `a..=b` on an i64, for 0 <= a <= b <= i32::MAX
InRange(x, a, b) == x.hi = 0 /\ x.lo >= a /\ x.lo <= b

\* `x as u8`: the low 8 bits
AsU8(x) == x.lo % 256

\* `x as u32`: the low 32 bits
AsU32(x) == I64(x.hi % 2, x.lo)

\* `x * 1000` on an i64 that the match arm has bounded by 999_999: the
\* product stays below 2^31
Times1000(x) == I64(x.hi, x.lo * 1000)

AccessOk(v) == [kind |-> "Ok", v |-> v, message |-> ""]

\* ArgumentError::with_message(m)
AccessErr(m) == [kind |-> "Err", v |-> W(0), message |-> m]

\* TimeArgs::year: i32::try_from(self.year)
year(f) ==
    IF f.year.hi = 0 THEN AccessOk(W(f.year.lo))
    ELSE IF f.year.hi = -1 THEN AccessOk(I64(-1, f.year.lo))
    ELSE AccessErr("year out of range")

\* TimeArgs::month
month(f) ==
    IF InRange(f.month, 1, 12) THEN AccessOk(W(AsU8(f.month)))
    ELSE AccessErr("mon out of range")

\* TimeArgs::day
day(f) ==
    IF InRange(f.day, 1, 31) THEN AccessOk(W(AsU8(f.day)))
    ELSE AccessErr("mday out of range")

hour_from_one(f) ==
    IF InRange(f.hour, 1, 23) THEN AccessOk(W(AsU8(f.hour)))
    ELSE AccessErr("hour out of range")

\* TimeArgs::hour
hour(f) ==
    IF InRange(f.hour, 0, 23) THEN AccessOk(W(AsU8(f.hour)))
    ELSE AccessErr("hour out of range")

\* TimeArgs::minute
minute(f) ==
    IF InRange(f.minute, 0, 59) THEN AccessOk(W(AsU8(f.minute)))
    ELSE AccessErr("min out of range")

\* TimeArgs::second
second(f) ==
    IF InRange(f.second, 0, 60) THEN AccessOk(W(AsU8(f.second)))
    ELSE AccessErr("sec out of range")

nanoseconds_unscaled(f) ==
    IF InRange(f.micros, 0, 999999) THEN AccessOk(AsU32(f.micros))
    ELSE AccessErr("subsecx out of range")

\* TimeArgs::nanoseconds
nanoseconds(f) ==
    IF InRange(f.micros, 0, 999999) THEN AccessOk(AsU32(Times1000(f.micros)))
    ELSE AccessErr("subsecx out of range")

(***************************************************************************)
(* extn/core/time/args.rs: as_time_args, step by step                      *)
(***************************************************************************)
IsEighth_never(i) == FALSE

\* as_time_args: `if i == 7`, the eighth parameter
IsEighth(i) == i = 7

\* a caller invokes as_time_args(interp, args)
TimeCall(args) ==
    /\ tpc \in {"idle", "done", "read", "panicked"}
    /\ tpc' = "match"
    /\ targs' = args
    /\ ti' = 0
    /\ tconv' = 0
    /\ tseen' = {}
    /\ tfields' = DefaultTimeArgs
    /\ tres' = NoTimeResult
    /\ tacc' = NoAccess
    /\ UNCHANGED <<evalVars, convVars>>

\* `0 | 9 | 11.. =>` the argument-count error
TimeCountError ==
    /\ tpc = "match"
    /\ IsCountError(Len(targs))
    /\ tres' = [kind |-> "Err", name |-> "ArgumentError",
                message |-> CountMessage(Len(targs)), fields |-> DefaultTimeArgs]
    /\ tpc' = "done"
    /\ UNCHANGED <<targs, ti, tconv, tseen, tfields, tacc>>
    /\ UNCHANGED <<evalVars, convVars>>

\* `1..=8 =>` start from TimeArgs::default() and walk the arguments
TimeStart ==
    /\ tpc = "match"
    /\ Len(targs) \in 1..8
    /\ tfields' = DefaultTimeArgs
    /\ ti' = 0
    /\ tpc' = "loop"
    /\ UNCHANGED <<targs, tconv, tseen, tres, tacc>>
    /\ UNCHANGED <<evalVars, convVars>>

\* `10 => todo!()`
TimeTodo ==
    /\ tpc = "match"
    /\ Len(targs) = 10
    /\ tpc' = "panicked"
    /\ UNCHANGED <<targs, ti, tconv, tseen, tfields, tres, tacc>>
    /\ UNCHANGED <<evalVars, convVars>>

\* loop body, `if i == 7 { continue; }`
TimeSkipEighth ==
    /\ tpc = "loop"
    /\ ti < Len(targs)
    /\ IsEighth(ti)
    /\ ti' = ti + 1
    /\ UNCHANGED <<tpc, targs, tconv, tseen, tfields, tres, tacc>>
    /\ UNCHANGED <<evalVars, convVars>>

\* loop body: to_int, then the assignment to the i-th field
TimeConvert ==
    /\ tpc = "loop"
    /\ ti < Len(targs)
    /\ ~IsEighth(ti)
    /\ tconv' = tconv + 1
    /\ tseen' = tseen \cup {ti}
    /\ LET r == to_int(targs[ti + 1])
       IN IF r.kind = "Ok"
          THEN /\ tfields' = Assign(tfields, ti, r.n)
               /\ ti' = ti + 1
               /\ UNCHANGED <<tpc, tres>>
          ELSE /\ tres' = [kind |-> "Err", name |-> "TypeError",
                           message |-> "no implicit conversion into Integer",
                           fields |-> DefaultTimeArgs]
               /\ tpc' = "done"
               /\ UNCHANGED <<tfields, ti>>
    /\ UNCHANGED <<targs, tacc>>
    /\ UNCHANGED <<evalVars, convVars>>

\* `Ok(result)`
TimeReturn ==
    /\ tpc = "loop"
    /\ ti = Len(targs)
    /\ tres' = [kind |-> "Ok", name |-> "", message |-> "", fields |-> tfields]
    /\ tpc' = "done"
    /\ UNCHANGED <<targs, ti, tconv, tseen, tfields, tacc>>
    /\ UNCHANGED <<evalVars, convVars>>

\* the caller reads the returned TimeArgs through its accessors
TimeAccessors ==
    /\ tpc = "done"
    /\ tres.kind = "Ok"
    /\ tacc' = [year |-> year(tres.fields), month |-> month(tres.fields),
                day |-> day(tres.fields), hour |-> hour(tres.fields),
                minute |-> minute(tres.fields), second |-> second(tres.fields),
                nanoseconds |-> nanoseconds(tres.fields)]
    /\ tpc' = "read"
    /\ UNCHANGED <<targs, ti, tconv, tseen, tfields, tres>>
    /\ UNCHANGED <<evalVars, convVars>>

NextTime ==
    \/ \E args \in ArgSlices : TimeCall(args)
    \/ TimeCountError
    \/ TimeStart
    \/ TimeTodo
    \/ TimeSkipEighth
    \/ TimeConvert
    \/ TimeReturn
    \/ TimeAccessors

SpecTime == Init /\ [][NextTime]_vars

(***************************************************************************)
(* convert.rs: native values, dynamic values and the two error structs     *)
(***************************************************************************)
\* most objects the conversion operations allocate
MaxAllocs == 4

\* a bool
NBool(b) == [rust |-> "Bool", some |-> TRUE, b |-> b]

\* an i64
NInt(n) == [rust |-> "SignedInt", some |-> TRUE, n |-> n]

\* a Vec<u8>
NBytes(b) == [rust |-> "Bytes", some |-> TRUE, v |-> b]

\* a String, always valid UTF-8
NString(t) == [rust |-> "String", some |-> TRUE, v |-> t]

\* Some(b) of an Option<bool>
SomeBool(b) == [rust |-> "Option<Bool>", some |-> TRUE, b |-> b]

\* Some(n) of an Option<i64>
SomeInt(n) == [rust |-> "Option<SignedInt>", some |-> TRUE, n |-> n]

\* None of an Option<bool>
NoneBool == [rust |-> "Option<Bool>", some |-> FALSE, b |-> FALSE]

\* None of an Option<i64>
NoneInt == [rust |-> "Option<SignedInt>", some |-> FALSE, n |-> 0]

\* sys::mrb_sys_fixnum_value: an Integer of the engine
Fixnum(n) == [tt |-> "fixnum", n |-> n]

\* the one byte string of the model that is no UTF-8
INVALID_UTF8 == "\\xFF"

\* std::str::from_utf8(b).is_ok()
IsUtf8(b) == b # INVALID_UTF8

\* native values converted without allocating
PureNatives ==
    {NBool(TRUE), NBool(FALSE), NoneBool, SomeBool(TRUE), SomeBool(FALSE), NoneInt}
    \cup {NInt(n) : n \in {-1, 0, 1, I32_MAX}}
    \cup {SomeInt(n) : n \in {-1, 0, 7}}

\* native values whose conversion allocates a String on the engine's heap
MutNatives ==
    {NBytes(b) : b \in {"", "abc", INVALID_UTF8}} \cup {NString(t) : t \in {"", "abc"}}

\* a heap object carrying a native payload of the given shape
Data(shape, payload) == [tt |-> "data", v |-> payload, shape |-> shape]

\* a heap object carrying no native payload
PlainObject == [tt |-> "object", v |-> ""]

\* the dynamic values handed to the conversions
DynValues ==
    {Nil, True, False, Fixnum(0), Fixnum(7), Str("abc"), Str(INVALID_UTF8), Sym("s"),
     PlainObject, Data("Encoding", "UTF-8"), Data("Encoding", "US-ASCII"),
     Data("Time", "1970-01-01")}

\* the native types a dynamic value is converted into
UnboxTypes ==
    {"Bool", "SignedInt", "Option<Bool>", "Option<SignedInt>", "Bytes", "String"}

\* the native shapes a heap object may carry
Shapes == {"Encoding", "Time"}

\* Value::ruby_type: the runtime type tag observed on a value
ruby_type(value) ==
    CASE value.tt \in {"true", "false"} -> "Bool"
      [] value.tt = "nil" -> "Nil"
      [] value.tt = "fixnum" -> "Fixnum"
      [] value.tt = "string" -> "String"
      [] value.tt = "symbol" -> "Symbol"
      [] value.tt = "data" -> "Data"
      [] value.tt = "exception" -> "Exception"
      [] value.tt = "undef" -> "Unreachable"
      [] OTHER -> "Object"

\* the Rust tag of a requested native type: an Option<T> is unboxed as T
RustTag(into) ==
    CASE into = "Option<Bool>" -> "Bool"
      [] into = "Option<SignedInt>" -> "SignedInt"
      [] OTHER -> into

UnboxRubyError_new_data_tag(value, into) ==
    [error |-> "UnboxRubyError", from |-> "Data", into |-> into]

\* UnboxRubyError::new
UnboxRubyError_new(value, into) ==
    [error |-> "UnboxRubyError", from |-> ruby_type(value), into |-> into]

\* BoxIntoRubyError::new
BoxIntoRubyError_new(from, into) ==
    [error |-> "BoxIntoRubyError", from |-> from, into |-> into]

\* impl Display for Ruby and for Rust: the text of a tag
TagText(tag) == tag

\* impl Display for UnboxRubyError
UnboxRubyError_fmt(e) ==
    "failed to convert from " \o TagText(e.from) \o " to " \o TagText(e.into)

\* RubyException::message for UnboxRubyError
UnboxRubyError_message(e) == "Failed to convert from Ruby value to Rust type"

\* RubyException::name for UnboxRubyError
UnboxRubyError_name(e) == "TypeError"

\* impl Display for BoxIntoRubyError
BoxIntoRubyError_fmt(e) ==
    "failed to convert from " \o TagText(e.from) \o " to " \o TagText(e.into)

\* RubyException::message for BoxIntoRubyError
BoxIntoRubyError_message(e) == "Failed to convert from Rust type to Ruby value"

\* RubyException::name for BoxIntoRubyError
BoxIntoRubyError_name(e) == "TypeError"

\* interp.new_instance::<TypeError>(&[message])
NewTypeError(text) == [tt |-> "exception", v |-> "TypeError", message |-> text]

\* RubyException::as_mrb_value for UnboxRubyError
UnboxRubyError_as_mrb_value(e) == NewTypeError(UnboxRubyError_fmt(e))

\* RubyException::as_mrb_value for BoxIntoRubyError
BoxIntoRubyError_as_mrb_value(e) == NewTypeError(BoxIntoRubyError_fmt(e))

\* the conversion errors a caller may hold
ConversionErrors ==
    {[error |-> "UnboxRubyError", from |-> f, into |-> i] :
        f \in {"Fixnum", "Nil", "Data"}, i \in {"Bool", "SignedInt", "Object"}}
    \cup {BoxIntoRubyError_new(f, i) :
        f \in {"SignedInt", "Bytes"}, i \in {"Fixnum", "String"}}

ConvOk(v) == [kind |-> "Ok", value |-> v, err |-> NoConvError]

ConvErr(e) == [kind |-> "Err", value |-> NoValue, err |-> e]

(***************************************************************************)
(* convert.rs: Convert, TryConvert and their mutable variants              *)
(***************************************************************************)
\* Convert::convert for bool, i64 and Option<T>
convert(x) ==
    CASE ~x.some -> Nil
      [] x.rust \in {"Bool", "Option<Bool>"} -> IF x.b THEN True ELSE False
      [] x.rust \in {"SignedInt", "Option<SignedInt>"} -> Fixnum(x.n)

\* ConvertMut::convert_mut for Vec<u8> and String: a new String object
convert_mut(x) == Str(x.v)

try_convert_none_is_error(value) ==
    IF value.some THEN ConvOk(convert(value))
    ELSE ConvErr(BoxIntoRubyError_new(value.rust, "Nil"))

\* impl TryConvert<T, U> for Artichoke where Artichoke: Convert<T, U>
try_convert(value) == ConvOk(convert(value))

\* impl TryConvertMut<T, U> for Artichoke where Artichoke: ConvertMut<T, U>
try_convert_mut(value) == ConvOk(convert_mut(value))

\* the value carries the native type asked for
Carries(value, into) ==
    CASE into = "Bool" -> value.tt \in {"true", "false"}
      [] into = "SignedInt" -> value.tt = "fixnum"
      [] into = "Option<Bool>" -> value.tt \in {"nil", "true", "false"}
      [] into = "Option<SignedInt>" -> value.tt \in {"nil", "fixnum"}
      [] into = "Bytes" -> value.tt = "string"
      [] into = "String" -> value.tt = "string" /\ IsUtf8(value.v)
      [] OTHER -> value.tt = "data" /\ value.shape = into

unbox_some_of_nil(value, into) ==
    IF ~Carries(value, into) THEN ConvErr(UnboxRubyError_new(value, RustTag(into)))
    ELSE CASE into = "Bool" -> ConvOk(NBool(value.tt = "true"))
           [] into = "SignedInt" -> ConvOk(NInt(value.n))
           [] into = "Option<Bool>" -> ConvOk(SomeBool(value.tt = "true"))
           [] into = "Option<SignedInt>" ->
                  ConvOk(SomeInt(IF value.tt = "nil" THEN 0 ELSE value.n))
           [] into = "Bytes" -> ConvOk(NBytes(value.v))
           [] into = "String" -> ConvOk(NString(value.v))

\* TryConvert<Value, T>: a dynamic value as the native type T
unbox(value, into) ==
    IF ~Carries(value, into) THEN ConvErr(UnboxRubyError_new(value, RustTag(into)))
    ELSE CASE into = "Bool" -> ConvOk(NBool(value.tt = "true"))
           [] into = "SignedInt" -> ConvOk(NInt(value.n))
           [] into = "Option<Bool>" ->
                  IF value.tt = "nil" THEN ConvOk(NoneBool)
                  ELSE ConvOk(SomeBool(value.tt = "true"))
           [] into = "Option<SignedInt>" ->
                  IF value.tt = "nil" THEN ConvOk(NoneInt)
                  ELSE ConvOk(SomeInt(value.n))
           [] into = "Bytes" -> ConvOk(NBytes(value.v))
           [] into = "String" -> ConvOk(NString(value.v))

\* BoxUnboxVmValue::unbox_from_value: the payload of a heap object, after
\* its shape was compared with the one asked for
unbox_from_value(value, shape) ==
    IF Carries(value, shape) THEN ConvOk(value.v)
    ELSE ConvErr(UnboxRubyError_new(value, shape))

(***************************************************************************)
(* The conversion operations, one call each                                *)
(***************************************************************************)
\* interp.try_convert(x) for a native x
ConvTryConvert(x) ==
    /\ cop' = "try_convert"
    /\ cin' = x
    /\ cres' = try_convert(x)
    /\ calloc' = 0
    /\ UNCHANGED cheap
    /\ UNCHANGED <<evalVars, timeVars>>

\* interp.try_convert_mut(x) for a native x: allocates the String
ConvTryConvertMut(x) ==
    /\ cheap < MaxAllocs
    /\ cop' = "try_convert_mut"
    /\ cin' = x
    /\ cres' = try_convert_mut(x)
    /\ calloc' = IF cres'.kind = "Ok" THEN 1 ELSE 0
    /\ cheap' = cheap + calloc'
    /\ UNCHANGED <<evalVars, timeVars>>

\* interp.try_convert(value) for a dynamic value, into a native type, or
\* T::unbox_from_value(value) for a native shape
ConvUnbox(value, into) ==
    /\ cop' = "unbox"
    /\ cin' = [value |-> value, into |-> into]
    /\ cres' = IF into \in Shapes THEN unbox_from_value(value, into)
               ELSE unbox(value, into)
    /\ calloc' = 0
    /\ UNCHANGED cheap
    /\ UNCHANGED <<evalVars, timeVars>>

\* a native value converted into a dynamic value and back as its own type
ConvRoundTrip(x) ==
    /\ cheap < MaxAllocs
    /\ cop' = "round_trip"
    /\ cin' = x
    /\ cres' = unbox(IF x \in MutNatives THEN convert_mut(x) ELSE convert(x), x.rust)
    /\ calloc' = IF x \in MutNatives THEN 1 ELSE 0
    /\ cheap' = cheap + calloc'
    /\ UNCHANGED <<evalVars, timeVars>>

\* encoding::trampoline::name
EncodingName(encoding) ==
    /\ cheap < MaxAllocs
    /\ cop' = "encoding_name"
    /\ cin' = encoding
    /\ LET unboxed == unbox_from_value(encoding, "Encoding")
       IN IF unboxed.kind = "Err"
          THEN /\ cres' = unboxed
               /\ calloc' = 0
          ELSE /\ cres' = ConvOk(Str(unboxed.value))
               /\ calloc' = 1
    /\ cheap' = cheap + calloc'
    /\ UNCHANGED <<evalVars, timeVars>>

\* RubyException::as_mrb_value of a conversion error: the message String
\* and the exception object are allocated
ConvAsMrbValue(e) ==
    /\ cheap + 2 <= MaxAllocs
    /\ cop' = "as_mrb_value"
    /\ cin' = e
    /\ cres' = ConvOk(IF e.error = "UnboxRubyError"
                      THEN UnboxRubyError_as_mrb_value(e)
                      ELSE BoxIntoRubyError_as_mrb_value(e))
    /\ calloc' = 2
    /\ cheap' = cheap + 2
    /\ UNCHANGED <<evalVars, timeVars>>

NextConv ==
    \/ \E x \in PureNatives : ConvTryConvert(x)
    \/ \E x \in MutNatives : ConvTryConvertMut(x)
    \/ \E value \in DynValues, into \in UnboxTypes \cup Shapes : ConvUnbox(value, into)
    \/ \E x \in PureNatives \cup MutNatives : ConvRoundTrip(x)
    \/ \E encoding \in DynValues : EncodingName(encoding)
    \/ \E e \in ConversionErrors : ConvAsMrbValue(e)

SpecConv == Init /\ [][NextConv]_vars

\* the counts the claim names: 0, 9, 11 and more
IsCountErrorCount(n) == n \in {0, 9} \/ n > 10

\* the count error's text for each count the bounds let the host try
ExpectedCountText(n) ==
    CASE n = 0 -> "wrong number of arguments (given 0, expected 1..8)"
      [] n = 9 -> "wrong number of arguments (given 9, expected 1..8)"
      [] n = 11 -> "wrong number of arguments (given 11, expected 1..8)"
      [] n = 12 -> "wrong number of arguments (given 12, expected 1..8)"
      [] n = 13 -> "wrong number of arguments (given 13, expected 1..8)"
      [] n = 14 -> "wrong number of arguments (given 14, expected 1..8)"

\* C10: with 0, 9 or 11 and more arguments as_time_args returns the
\* ArgumentError "wrong number of arguments (given N, expected 1..8)" for
\* the N it was given and converts no argument; with 1 to 8 arguments it
\* never returns an argument-count error.
C10_ArgumentCount ==
    /\ (tpc = "done" /\ IsCountErrorCount(Len(targs))) =>
          /\ tres.kind = "Err"
          /\ tres.name = "ArgumentError"
          /\ tres.message = ExpectedCountText(Len(targs))
          /\ tconv = 0
    /\ (tpc \in {"loop", "done", "read"} /\ Len(targs) \in 1..8) =>
          ~(tres.kind = "Err" /\ tres.name = "ArgumentError")
    /\ (tpc # "match" /\ Len(targs) \in 1..8) => tpc \in {"loop", "done", "read"}

C10_Witness ==
    /\ tpc = "done"
    /\ Len(targs) = 11
    /\ tres.kind = "Err"
    /\ tres.message = "wrong number of arguments (given 11, expected 1..8)"

(***************************************************************************)
(* The accessors of a returned TimeArgs                                    *)
(***************************************************************************)
\* the stored i64 lies between two small non-negative numbers
Between(x, a, b) == x.hi = 0 /\ x.lo \in a..b

\* what an accessor answers for a stored value: Ok(value) inside the range,
\* ArgumentError "<field> out of range" outside of it
Answers(acc, stored, inside, field) ==
    IF inside
    THEN acc.kind = "Ok" /\ acc.v = stored
    ELSE acc.kind = "Err" /\ acc.message = field \o " out of range"

\* C11: for every stored value each accessor returns Ok(value) exactly
\* when the value is in the field's range (month 1..=12, day 1..=31, hour
\* 0..=23, minute 0..=59, second 0..=60, microsecond 0..=999_999) and the
\* ArgumentError naming that field otherwise; the answer of one accessor
\* depends on its own field only.
C11_AccessorRanges ==
    tpc = "read" =>
        LET f == tres.fields
        IN /\ Answers(tacc.month, f.month, Between(f.month, 1, 12), "mon")
           /\ Answers(tacc.day, f.day, Between(f.day, 1, 31), "mday")
           /\ Answers(tacc.hour, f.hour, Between(f.hour, 0, 23), "hour")
           /\ Answers(tacc.minute, f.minute, Between(f.minute, 0, 59), "min")
           /\ Answers(tacc.second, f.second, Between(f.second, 0, 60), "sec")
           /\ (tacc.nanoseconds.kind = "Ok") <=> Between(f.micros, 0, 999999)
           /\ tacc.nanoseconds.kind = "Err" =>
                  tacc.nanoseconds.message = "subsecx out of range"

C11_Witness ==
    /\ tpc = "read"
    /\ tres.fields.hour = W(24)
    /\ tacc.hour.kind = "Err"
    /\ tacc.hour.message = "hour out of range"
    /\ tacc.month.kind = "Ok"
    /\ tacc.day.kind = "Ok"
    /\ tacc.minute.kind = "Ok"
    /\ tacc.second.kind = "Ok"
    /\ tacc.nanoseconds.kind = "Ok"

\* C12: nanoseconds() is micros * 1000 for micros in 0..=999_999 and an
\* error for any other i64; year() is the stored year when it fits in i32
\* and the error "year out of range" otherwise; no accessor that succeeds
\* returns a number other than the stored one (scaled by 1000 for
\* nanoseconds).
C12_NoWrapNoTruncation ==
    tpc = "read" =>
        LET f == tres.fields
        IN /\ IF Between(f.micros, 0, 999999)
              THEN /\ tacc.nanoseconds.kind = "Ok"
                   /\ tacc.nanoseconds.v.hi = 0
                   /\ tacc.nanoseconds.v.lo = f.micros.lo * 1000
              ELSE /\ tacc.nanoseconds.kind = "Err"
                   /\ tacc.nanoseconds.message = "subsecx out of range"
           /\ IF f.year.hi \in {-1, 0}
              THEN tacc.year.kind = "Ok" /\ tacc.year.v = f.year
              ELSE /\ tacc.year.kind = "Err"
                   /\ tacc.year.message = "year out of range"
           /\ tacc.month.kind = "Ok" => tacc.month.v = f.month
           /\ tacc.day.kind = "Ok" => tacc.day.v = f.day
           /\ tacc.hour.kind = "Ok" => tacc.hour.v = f.hour
           /\ tacc.minute.kind = "Ok" => tacc.minute.v = f.minute
           /\ tacc.second.kind = "Ok" => tacc.second.v = f.second

C12_Witness ==
    /\ tpc = "read"
    /\ tres.fields.micros = W(999999)
    /\ tacc.nanoseconds.kind = "Ok"
    /\ tacc.nanoseconds.v = W(999999000)

(***************************************************************************)
(* The fields as_time_args fills in                                        *)
(***************************************************************************)
\* the i-th field of a TimeArgs, counted from 0 in the order year, month,
\* day, hour, minute, second, microsecond
FieldAt(f, i) ==
    CASE i = 0 -> f.year
      [] i = 1 -> f.month
      [] i = 2 -> f.day
      [] i = 3 -> f.hour
      [] i = 4 -> f.minute
      [] i = 5 -> f.second
      [] i = 6 -> f.micros

\* the default of the i-th field
DefaultAt(i) == IF i \in {1, 2} THEN W(1) ELSE W(0)

\* C13: with N in 1..=7 integer arguments the i-th argument (from 0) is
\* the i-th field in the order year, month, day, hour, minute, second,
\* microsecond, and every field from N on has its default.
C13_PositionalAssignment ==
    ( /\ tpc \in {"done", "read"}
      /\ Len(targs) \in 1..7
      /\ \A k \in 1..Len(targs) : targs[k].tt = "fixnum" ) =>
        /\ tres.kind = "Ok"
        /\ \A i \in 0..6 :
              FieldAt(tres.fields, i) =
                  IF i < Len(targs) THEN targs[i + 1].n ELSE DefaultAt(i)

C13_Witness ==
    /\ tpc = "done"
    /\ Len(targs) = 3
    /\ \A k \in 1..3 : targs[k].tt = "fixnum"
    /\ tres.kind = "Ok"
    /\ tres.fields.year = W(2022)
    /\ tres.fields.month = W(2)
    /\ tres.fields.day = W(3)
    /\ tres.fields.hour = W(0)

\* C14: the eighth argument never reaches integer coercion; with 8
\* arguments whose first seven convert, the call succeeds whatever the
\* eighth is and the fields are those of the first seven arguments.
C14_EighthIgnored ==
    /\ 7 \notin tseen
    /\ ( /\ tpc \in {"done", "read"}
         /\ Len(targs) = 8
         /\ \A k \in 1..7 : targs[k].tt \in {"fixnum", "object"} ) =>
           /\ tres.kind = "Ok"
           /\ tconv = 7
           /\ \A i \in 0..6 : FieldAt(tres.fields, i) = targs[i + 1].n

C14_Witness ==
    /\ tpc = "done"
    /\ Len(targs) = 8
    /\ targs[8] = ErrorClassArg
    /\ tres.kind = "Ok"
    /\ tres.fields.micros = W(7)
    /\ tseen = 0..6

(***************************************************************************)
(* Properties of the conversion layer                                      *)
(***************************************************************************)
\* C15: wherever an infallible conversion exists the fallible one succeeds
\* with the same value, try_convert(x) = Ok(convert(x)) and
\* try_convert_mut(x) = Ok(convert_mut(x)), and it never produces an error.
C15_BlanketTryConvert ==
    /\ cop = "try_convert" =>
          /\ cres.kind = "Ok"
          /\ cres.value = convert(cin)
          /\ cres.err = NoConvError
    /\ cop = "try_convert_mut" =>
          /\ cres.kind = "Ok"
          /\ cres.value = convert_mut(cin)
          /\ cres.err = NoConvError

C15_Witness ==
    /\ cop = "try_convert"
    /\ cin = NoneInt
    /\ cres.kind = "Ok"
    /\ cres.value = Nil

\* C16: for every (from, into) pair the exception object that as_mrb_value
\* makes of an UnboxRubyError or a BoxIntoRubyError is a TypeError whose
\* message is the fixed text of message(), whatever the tags are.
C16_FixedMessage ==
    cop = "as_mrb_value" =>
        /\ cres.kind = "Ok"
        /\ cres.value.v = "TypeError"
        /\ cres.value.message =
              IF cin.error = "UnboxRubyError" THEN UnboxRubyError_message(cin)
              ELSE BoxIntoRubyError_message(cin)

\* C17: unboxing a value as a native type or shape it does not carry
\* fails with an UnboxRubyError whose `from` is the value's observed
\* runtime type tag and whose `into` is what was asked for; Encoding name
\* of a value that is no Encoding returns that error and allocates nothing.
C17_UnboxMismatch ==
    /\ (cop = "unbox" /\ ~Carries(cin.value, cin.into)) =>
          /\ cres.kind = "Err"
          /\ cres.err.error = "UnboxRubyError"
          /\ cres.err.from = ruby_type(cin.value)
          /\ cres.err.into = RustTag(cin.into)
    /\ (cop = "encoding_name" /\ ~Carries(cin, "Encoding")) =>
          /\ cres.kind = "Err"
          /\ cres.err.error = "UnboxRubyError"
          /\ cres.err.from = ruby_type(cin)
          /\ cres.err.into = "Encoding"
          /\ calloc = 0

C17_Witness ==
    /\ cop = "encoding_name"
    /\ cin = Fixnum(7)
    /\ cres.kind = "Err"
    /\ cres.err = [error |-> "UnboxRubyError", from |-> "Fixnum", into |-> "Encoding"]
    /\ calloc = 0

InsideOrAfterEngine(f) ==
    f.pc \in {"run", "in_require", "in_native", "protected", "inspect", "returned"}

C20_NoBorrowAcrossEngine ==
    \A k \in 1..Len(calls) :
        /\ calls[k].pc # "panicked"
        /\ calls[k].pc \in {"protect", "run", "in_require", "in_native"} =>
              (calls[k].refs = 0 /\ calls[k].refmuts = 0)

C20_Witness ==
    /\ Len(calls) = 2
    /\ calls[1].pc = "in_require"
    /\ Top.via = "require"
    /\ Top.pc = "run"
    /\ stack # <<>>
    /\ \A k \in 1..2 : calls[k].refs = 0 /\ calls[k].refmuts = 0

====
